---- MODULE Spec2Model ----
(***************************************************************************)
(* A model of src/message/mod.rs of iamb: message timestamps and their    *)
(* order, message keys and the MessageCursor <-> Cursor mapping over the  *)
(* room's BTreeMap of messages, redaction of message events, and the      *)
(* column layout chosen by Message::get_render_format.                    *)
(*                                                                         *)
(* Option<T> is modelled as a sequence: <<>> is None, <<v>> is Some(v).   *)
(* Result<T, E> is modelled as <<"Ok", v>> or <<"Err", e>>.               *)
(***************************************************************************)
EXTENDS Integers, Sequences, FiniteSets, TLC

(***************************************************************************)
(* Integer widths.  TLC's integers are 32 bits wide, so the three widths   *)
(* the code converts between are scaled down, keeping their order:         *)
(*   usize::MAX on a 32-bit target  <  UInt::MAX (2^53 - 1)  <  u64::MAX   *)
(* and usize::MAX = u64::MAX on a 64-bit target.                           *)
(***************************************************************************)
Usize32Max == 1

UIntMax == 2

U64Max == 3

\* The event identifiers of the model: 1..MaxEventId stand for distinct
\* "$..." strings in their lexicographic order.
MaxEventId == 2

\* The largest text_row of a MessageCursor of the model.
MaxTextRow == 2

None == <<>>

Some(v) == <<v>>

Ok(v) == <<"Ok", v>>

Err(e) == <<"Err", e>>

IsOk(r) == r[1] = "Ok"

\* Result::ok(): Ok(v) becomes Some(v), an error becomes None.
ResultOk(r) == IF IsOk(r) THEN Some(r[2]) ELSE None

(***************************************************************************)
(* MessageTimeStamp                                                        *)
(***************************************************************************)
OriginServer(ms) == [kind |-> "OriginServer", ms |-> ms]

LocalEcho == [kind |-> "LocalEcho", ms |-> 0]

MessageTimeStamp == {OriginServer(ms) : ms \in 0..UIntMax} \cup {LocalEcho}

\* Ord for integers (a.cmp(b)).
IntCmp(a, b) == IF a < b THEN "Less" ELSE IF a > b THEN "Greater" ELSE "Equal"

\* A plausible slip: local echo sorts first instead of last.
TsCmpLocalFirst(a, b) ==
    CASE a.kind = "OriginServer" /\ b.kind = "LocalEcho" -> "Greater"
      [] a.kind = "OriginServer" /\ b.kind = "OriginServer" -> IntCmp(a.ms, b.ms)
      [] a.kind = "LocalEcho" /\ b.kind = "OriginServer" -> "Less"
      [] a.kind = "LocalEcho" /\ b.kind = "LocalEcho" -> "Equal"

\* impl Ord for MessageTimeStamp
TsCmp(a, b) ==
    CASE a.kind = "OriginServer" /\ b.kind = "LocalEcho" -> "Less"
      [] a.kind = "OriginServer" /\ b.kind = "OriginServer" -> IntCmp(a.ms, b.ms)
      [] a.kind = "LocalEcho" /\ b.kind = "OriginServer" -> "Greater"
      [] a.kind = "LocalEcho" /\ b.kind = "LocalEcho" -> "Equal"

\* Ordering::then
OrdThen(first, second) == IF first = "Equal" THEN second ELSE first

\* A plausible slip: the zero test is dropped, so 0 becomes OriginServer(0).
TsTryFromUsizeNoZero(u) ==
    IF u > U64Max THEN Err("IntError")
    ELSE IF u > UIntMax THEN Err("UIntError")
    ELSE Ok(OriginServer(u))

\* impl TryFrom<usize> for MessageTimeStamp
TsTryFromUsize(u) ==
    IF u = 0 THEN Ok(LocalEcho)
    ELSE IF u > U64Max THEN Err("IntError")
    ELSE IF u > UIntMax THEN Err("UIntError")
    ELSE Ok(OriginServer(u))

\* impl TryFrom<&MessageTimeStamp> for usize, on a target whose usize::MAX is
\* usize_max.
UsizeTryFromTs(ts, usize_max) ==
    IF ts.kind = "LocalEcho" THEN Ok(0)
    ELSE IF ts.ms > usize_max THEN Err("IntError")
    ELSE Ok(ts.ms)

(***************************************************************************)
(* MessageKey = (MessageTimeStamp, OwnedEventId), Messages = BTreeMap      *)
(***************************************************************************)
EventIds == 1..MaxEventId

\* OwnedEventId::try_from("$"): every event identifier starts with "$", so
\* "$" sorts before all of them.
ev_term_id == 0

Key(ts, id) == [ts |-> ts, id |-> id]

MessageKey == {Key(ts, id) : ts \in MessageTimeStamp, id \in EventIds}

\* The derived Ord of the tuple: by timestamp, then by event identifier.
KeyCmp(a, b) == OrdThen(TsCmp(a.ts, b.ts), IntCmp(a.id, b.id))

\* The values DefaultHasher::finish() takes in the model: two that fit every
\* usize and one that fits only a 64-bit usize.
HashVals == {0, 1, U64Max}

\* A cursor of modalkit: Cursor::new(y, x), get_y(), get_x().
Cursor(y, x) == [y |-> y, x |-> x]

\* MessageCursor { timestamp, text_row }
MessageCursor(timestamp, text_row) == [timestamp |-> timestamp, text_row |-> text_row]

\* impl From<MessageKey> for MessageCursor
McFromKey(key) == MessageCursor(Some(key), 0)

\* MessageCursor::latest()
McLatest == MessageCursor(None, 0)

MessageCursors ==
    {MessageCursor(t, r) : t \in {None} \cup {Some(k) : k \in MessageKey},
                           r \in 0..MaxTextRow}

\* The cursors the operations on the room's messages are applied to: they
\* read text_row nowhere, so its two extremes stand for all.
RoomCursors == {mc \in MessageCursors : mc.text_row \in {0, MaxTextRow}}

VARIABLES
    usize_max,  \* usize::MAX of the target the program is built for
    hasher,     \* DefaultHasher: event identifier -> u64
    messages,   \* info.messages: the keys of the BTreeMap
    last,       \* the last cursor operation: its arguments and its result
    cmp,        \* the last comparison: its arguments and its results
    conv,       \* the last timestamp/integer conversion
    msg,        \* a Message: its event and its parsed html
    fmt,        \* the last MessageFormatter built by get_render_format
    shown       \* the last Text built by show, with what it was built from

vars == <<usize_max, hasher, messages, last, cmp, conv, msg, fmt, shown>>

\* A plausible slip: first_key_value() instead of last_key_value().
FirstKey(S) == CHOOSE k \in S : \A j \in S : KeyCmp(j, k) # "Less"

\* BTreeMap::last_key_value(): the greatest key of a non-empty map.
LastKey(S) == CHOOSE k \in S : \A j \in S : KeyCmp(j, k) # "Greater"

RECURSIVE SortedKeys(_)
\* The keys of a map in the order its iterators yield them.
SortedKeys(S) ==
    IF S = {} THEN <<>>
    ELSE LET m == CHOOSE k \in S : \A j \in S : KeyCmp(j, k) # "Less"
         IN <<m>> \o SortedKeys(S \ {m})

\* BTreeMap::range(start..): the keys at or after start, ascending.
RangeFrom(S, start) == SortedKeys({k \in S : KeyCmp(k, start) # "Less"})

\* MessageCursor::to_key
to_key(self, msgs) ==
    IF self.timestamp # None THEN self.timestamp
    ELSE IF msgs = {} THEN None
    ELSE Some(LastKey(msgs))

RECURSIVE ScanNoBreak(_, _, _, _, _, _)
\* A plausible slip: the loop never stops at a later timestamp, so it looks for
\* the hash among all the keys that follow.
ScanNoBreak(keys, i, mc, ev_hash, ts_start, h) ==
    IF i > Len(keys) THEN mc
    ELSE LET k == keys[i] IN
         IF h[k.id] = ev_hash THEN Some(McFromKey(k))
         ELSE ScanNoBreak(keys, i + 1, IF mc = None THEN Some(McFromKey(k)) ELSE mc,
                          ev_hash, ts_start, h)

RECURSIVE ScanKeepLast(_, _, _, _, _, _)
\* A plausible slip: the fallback is overwritten by every candidate.
ScanKeepLast(keys, i, mc, ev_hash, ts_start, h) ==
    IF i > Len(keys) THEN mc
    ELSE LET k == keys[i] IN
         IF h[k.id] = ev_hash THEN Some(McFromKey(k))
         ELSE IF TsCmp(k.ts, ts_start) = "Greater" THEN Some(McFromKey(k))
         ELSE ScanKeepLast(keys, i + 1, Some(McFromKey(k)), ev_hash, ts_start, h)

RECURSIVE Scan(_, _, _, _, _, _)
\* The loop of from_cursor over range(start..), from its i-th key on, with
\* the fallback mc found so far.
Scan(keys, i, mc, ev_hash, ts_start, h) ==
    IF i > Len(keys) THEN mc
    ELSE LET k == keys[i] IN
         IF h[k.id] = ev_hash THEN Some(McFromKey(k))
         ELSE LET mc2 == IF mc = None THEN Some(McFromKey(k)) ELSE mc IN
              IF TsCmp(k.ts, ts_start) = "Greater" THEN mc2
              ELSE Scan(keys, i + 1, mc2, ev_hash, ts_start, h)

\* MessageCursor::from_cursor
from_cursor(cursor, msgs, h) ==
    LET ev_hash == IF cursor.x > U64Max THEN None ELSE Some(cursor.x)
        ts_start == ResultOk(TsTryFromUsize(cursor.y))
    IN IF ev_hash = None \/ ts_start = None THEN None
       ELSE Scan(RangeFrom(msgs, Key(ts_start[1], ev_term_id)), 1, None,
                 ev_hash[1], ts_start[1], h)

\* MessageCursor::to_cursor
to_cursor(self, msgs, h, umax) ==
    LET key == to_key(self, msgs) IN
    IF key = None THEN None
    ELSE LET y == ResultOk(UsizeTryFromTs(key[1].ts, umax))
             x == IF h[key[1].id] > umax THEN None ELSE Some(h[key[1].id])
         IN IF y = None \/ x = None THEN None
            ELSE Some(Cursor(y[1], x[1]))

(***************************************************************************)
(* The room's messages and the cursor operations on them                   *)
(***************************************************************************)
NoOp == [op |-> "none", mc |-> McLatest, cursor |-> None, out |-> None]

NoCmp == [op |-> "none", args |-> <<>>, out |-> <<>>]

NoConv == [op |-> "none", arg |-> 0, umax |-> 0, out |-> <<>>, back |-> <<>>]

NoMsg == <<>>

NoFmt == <<>>

NoShown == <<>>

\* The cursor operations below read info.messages and change nothing: each is
\* applied to the map as it stands after the insertions so far, and `last`
\* holds what the one operation applied to it returned.

\* The cursors the viewport can hand to from_cursor: both coordinates are usize.
Cursors(umax) == {Cursor(y, x) : y \in 0..umax, x \in 0..umax}

\* BTreeMap::insert of a message under its key.  Event identifiers are unique:
\* no two messages of a room share one.
Insert(ts, id) ==
    /\ \A k \in messages : k.id # id
    /\ messages' = messages \cup {Key(ts, id)}
    /\ last' = NoOp
    /\ UNCHANGED <<usize_max, hasher, cmp, conv, msg, fmt, shown>>

\* mc.to_key(&info)
ToKey ==
    /\ last = NoOp
    /\ \E mc \in RoomCursors :
          last' = [op |-> "to_key", mc |-> mc, cursor |-> None,
                   out |-> to_key(mc, messages)]
    /\ UNCHANGED <<usize_max, hasher, messages, cmp, conv, msg, fmt, shown>>

\* mc.to_cursor(&info)
ToCursor ==
    /\ last = NoOp
    /\ \E mc \in RoomCursors :
          last' = [op |-> "to_cursor", mc |-> mc, cursor |-> None,
                   out |-> to_cursor(mc, messages, hasher, usize_max)]
    /\ UNCHANGED <<usize_max, hasher, messages, cmp, conv, msg, fmt, shown>>

\* MessageCursor::from_cursor(&cursor, &info)
FromCursor ==
    /\ last = NoOp
    /\ \E cursor \in Cursors(usize_max) :
          last' = [op |-> "from_cursor", mc |-> McLatest, cursor |-> Some(cursor),
                   out |-> from_cursor(cursor, messages, hasher)]
    /\ UNCHANGED <<usize_max, hasher, messages, cmp, conv, msg, fmt, shown>>

\* The round trip of test_mc_to_from_cursor:
\*   let c = mc.to_cursor(&info).unwrap(); MessageCursor::from_cursor(&c, &info)
Identity ==
    /\ last = NoOp
    /\ \E mc \in RoomCursors :
          LET c == to_cursor(mc, messages, hasher, usize_max) IN
          /\ c # None
          /\ last' = [op |-> "identity", mc |-> mc, cursor |-> c,
                      out |-> from_cursor(c[1], messages, hasher)]
    /\ UNCHANGED <<usize_max, hasher, messages, cmp, conv, msg, fmt, shown>>

Init ==
    /\ usize_max \in {Usize32Max, U64Max}
    /\ hasher \in [EventIds -> HashVals]
    /\ messages = {}
    /\ last = NoOp
    /\ cmp = NoCmp
    /\ conv = NoConv
    /\ msg = NoMsg
    /\ fmt = NoFmt
    /\ shown = NoShown

Next ==
    \/ \E ts \in MessageTimeStamp, id \in EventIds : Insert(ts, id)
    \/ ToKey
    \/ ToCursor
    \/ FromCursor
    \/ Identity

Spec == Init /\ [][Next]_vars

(***************************************************************************)
(* The orders and the conversions, applied to inputs of every shape        *)
(***************************************************************************)
\* A plausible slip: the sub-row is compared before the key.
McCmpRowFirst(a, b) ==
    CASE a.timestamp = None /\ b.timestamp = None -> IntCmp(a.text_row, b.text_row)
      [] a.timestamp = None /\ b.timestamp # None -> "Greater"
      [] a.timestamp # None /\ b.timestamp = None -> "Less"
      [] a.timestamp # None /\ b.timestamp # None ->
            OrdThen(IntCmp(a.text_row, b.text_row),
                    KeyCmp(a.timestamp[1], b.timestamp[1]))

\* impl Ord for MessageCursor
McCmp(a, b) ==
    CASE a.timestamp = None /\ b.timestamp = None -> IntCmp(a.text_row, b.text_row)
      [] a.timestamp = None /\ b.timestamp # None -> "Greater"
      [] a.timestamp # None /\ b.timestamp = None -> "Less"
      [] a.timestamp # None /\ b.timestamp # None ->
            LET pcmp == KeyCmp(a.timestamp[1], b.timestamp[1])
                tcmp == IntCmp(a.text_row, b.text_row)
            IN OrdThen(pcmp, tcmp)

PureIdle == cmp = NoCmp /\ conv = NoConv

\* a.cmp(&b), b.cmp(&a), b.cmp(&c) and a.cmp(&c) of three timestamps
CmpTimeStamps ==
    /\ PureIdle
    /\ \E a \in MessageTimeStamp, b \in MessageTimeStamp, c \in MessageTimeStamp :
          cmp' = [op |-> "ts_cmp", args |-> <<a, b, c>>,
                  out |-> [ab |-> TsCmp(a, b), ba |-> TsCmp(b, a),
                           bc |-> TsCmp(b, c), ac |-> TsCmp(a, c)]]
    /\ UNCHANGED <<usize_max, hasher, messages, last, conv, msg, fmt, shown>>

\* a.cmp(&b), b.cmp(&a), b.cmp(&c) and a.cmp(&c) of three message cursors
CmpCursors ==
    /\ PureIdle
    /\ \E a \in MessageCursors, b \in MessageCursors, c \in MessageCursors :
          cmp' = [op |-> "mc_cmp", args |-> <<a, b, c>>,
                  out |-> [ab |-> McCmp(a, b), ba |-> McCmp(b, a),
                           bc |-> McCmp(b, c), ac |-> McCmp(a, c)]]
    /\ UNCHANGED <<usize_max, hasher, messages, last, conv, msg, fmt, shown>>

\* MessageTimeStamp::try_from(u), and the result converted back with
\* usize::try_from(&ts) when there is one
ConvFromUsize ==
    /\ PureIdle
    /\ \E u \in 0..usize_max :
          LET r == TsTryFromUsize(u) IN
          conv' = [op |-> "from_usize", arg |-> u, umax |-> usize_max, out |-> r,
                   back |-> IF IsOk(r) THEN UsizeTryFromTs(r[2], usize_max)
                            ELSE <<>>]
    /\ UNCHANGED <<usize_max, hasher, messages, last, cmp, msg, fmt, shown>>

\* usize::try_from(&ts)
ConvFromTs ==
    /\ PureIdle
    /\ \E ts \in MessageTimeStamp :
          conv' = [op |-> "from_ts", arg |-> ts, umax |-> usize_max,
                   out |-> UsizeTryFromTs(ts, usize_max), back |-> <<>>]
    /\ UNCHANGED <<usize_max, hasher, messages, last, cmp, msg, fmt, shown>>

InitPure ==
    /\ usize_max \in {Usize32Max, U64Max}
    /\ hasher = [id \in EventIds |-> 0]
    /\ messages = {}
    /\ last = NoOp
    /\ cmp = NoCmp
    /\ conv = NoConv
    /\ msg = NoMsg
    /\ fmt = NoFmt
    /\ shown = NoShown

NextPure ==
    \/ CmpTimeStamps
    \/ CmpCursors
    \/ ConvFromUsize
    \/ ConvFromTs

SpecPure == InitPure /\ [][NextPure]_vars

(***************************************************************************)
(* MessageEvent and Message                                                *)
(***************************************************************************)
Users == {"@a:example.org", "@b:example.org"}

\* content.reason of a redaction event: none, or one of two reasons.
Reasons == {None, Some("spam"), Some("offensive")}

\* RoomMessageEventContent: its msgtype, whether a Text content carries a
\* FormattedBody of MessageFormat::Html, and the event it replies to.
Contents ==
    [msgtype : {"Text", "Emote", "Notice", "Image"}, html : BOOLEAN,
     reply : {None} \cup {Some(id) : id \in EventIds}]

\* enum MessageEvent.  `content` is Some for the variants that hold a
\* RoomMessageEventContent, `reason` is the reason of unsigned.redacted_because
\* of the two redacted variants.
Event(kind, id, content, reason) ==
    [kind |-> kind, event_id |-> id, content |-> content, reason |-> reason]

MessageEvents ==
    {Event("EncryptedOriginal", id, None, None) : id \in EventIds}
    \cup {Event("EncryptedRedacted", id, None, r) : id \in EventIds, r \in Reasons}
    \cup {Event("Original", id, Some(c), None) : id \in EventIds, c \in Contents}
    \cup {Event("Redacted", id, None, r) : id \in EventIds, r \in Reasons}
    \cup {Event("Local", id, Some(c), None) : id \in EventIds, c \in Contents}

\* MessageEvent::content
EventContent(ev) == IF ev.kind \in {"Original", "Local"} THEN ev.content ELSE None

\* MessageEvent::is_emote
is_emote(ev) == EventContent(ev) # None /\ EventContent(ev)[1].msgtype = "Emote"

\* MessageEvent::html: Some(parse_matrix_html(body)) for the Text content of
\* an Original or Local event that carries an HTML body.  The tree is named
\* by the event whose body it was parsed from.
EventHtml(ev) ==
    IF ev.kind \in {"EncryptedOriginal", "EncryptedRedacted", "Redacted"} THEN None
    ELSE IF ev.content[1].msgtype = "Text" /\ ev.content[1].html
         THEN Some([tree_of |-> ev.event_id])
         ELSE None

\* A plausible slip: a local echo is redacted like an original event.
redactLocalToo(ev, reason) ==
    IF ev.kind \in {"Original", "Local"}
    THEN Event("Redacted", ev.event_id, None, reason)
    ELSE ev

\* MessageEvent::redact: only an Original event is replaced, by the Redacted
\* event ruma's Redact::redact builds, which keeps the event identifier and
\* holds the redaction in unsigned.redacted_because.
redact(ev, reason) ==
    IF ev.kind = "Original"
    THEN Event("Redacted", ev.event_id, None, reason)
    ELSE ev

\* Message::reply_to
reply_to(m) ==
    IF m.event.kind \in {"EncryptedOriginal", "EncryptedRedacted", "Redacted"}
    THEN None
    ELSE m.event.content[1].reply

\* Message::new
MessageNew(event, sender, timestamp) ==
    [event |-> event, sender |-> sender, timestamp |-> timestamp,
     downloaded |-> FALSE, html |-> EventHtml(event)]

\* The messages the From impls and the local echo build: an event of the
\* server carries its origin_server_ts, a Local event the LocalEcho timestamp.
NewMessages ==
    {m \in {MessageNew(ev, u, ts) : ev \in MessageEvents, u \in Users,
                                    ts \in MessageTimeStamp} :
        (m.event.kind = "Local") <=> (m.timestamp = LocalEcho)}

\* impl From<RoomEncryptedEvent / OriginalRoomMessageEvent /
\* RedactedRoomMessageEvent> for Message, and the Message of a local echo.
New(m) ==
    /\ msg = NoMsg
    /\ msg' = Some(m)
    /\ UNCHANGED <<usize_max, hasher, messages, last, cmp, conv, fmt, shown>>

\* msg.event.redact(redaction, version), the redaction giving any reason or none
Redact(reason) ==
    /\ msg # NoMsg
    /\ msg' = Some([msg[1] EXCEPT !.event = redact(msg[1].event, reason)])
    /\ UNCHANGED <<usize_max, hasher, messages, last, cmp, conv, fmt, shown>>

InitEvent ==
    /\ usize_max = U64Max
    /\ hasher = [id \in EventIds |-> 0]
    /\ messages = {}
    /\ last = NoOp
    /\ cmp = NoCmp
    /\ conv = NoConv
    /\ msg = NoMsg
    /\ fmt = NoFmt
    /\ shown = NoShown

NextEvent ==
    \/ \E m \in NewMessages : New(m)
    \/ \E r \in Reasons : Redact(r)

SpecEvent == InitEvent /\ [][NextEvent]_vars

(***************************************************************************)
(* Message::get_render_format                                              *)
(***************************************************************************)
USER_GUTTER == 30

TIME_GUTTER == 12

READ_GUTTER == 5

MIN_MSG_LEN == 30

\* The widest viewport of the model.
MaxWidth == 80

\* The milliseconds of a day, scaled like the timestamps.
MsPerDay == 2

\* The days LocalTz::now() can fall on.
Days == 0..(UIntMax \div MsPerDay)

\* MessageTimeStamp::as_datetime, to the day: a local echo is dated now.
DayOf(ts, now) == IF ts.kind = "LocalEcho" THEN now ELSE ts.ms \div MsPerDay

\* MessageTimeStamp::same_day
same_day(a, b, now) == DayOf(a, now) = DayOf(b, now)

\* MessageTimeStamp::show_date
show_date(ts, now) == Some([date |-> DayOf(ts, now)])

\* MessageTimeStamp::show_time: "  [HH:MM:SS]", and nothing for a local echo
show_time(ts) ==
    IF ts.kind = "OriginServer" THEN Some([time |-> ts.ms, width |-> TIME_GUTTER])
    ELSE None

\* usize::saturating_sub
SatSub(a, b) == IF a > b THEN a - b ELSE 0

\* Message::show_sender: the sender's name cut to 28 characters, padded to 28
\* on the left or on the right, and two spaces.
show_sender(self, prev, align_right, now) ==
    IF /\ prev # None
       /\ self.sender = prev[1].sender
       /\ same_day(self.timestamp, prev[1].timestamp, now)
       /\ ~is_emote(self.event)
    THEN None
    ELSE Some([name |-> self.sender, align_right |-> align_right, width |-> 28 + 2])

\* A plausible slip: `<` for `<=` in the three width tests.
ColumnsStrict(width, read_receipt_display) ==
    IF USER_GUTTER + TIME_GUTTER + READ_GUTTER + MIN_MSG_LEN < width
       /\ read_receipt_display
    THEN "Four"
    ELSE IF USER_GUTTER + TIME_GUTTER + MIN_MSG_LEN < width THEN "Three"
    ELSE IF USER_GUTTER + MIN_MSG_LEN < width THEN "Two"
    ELSE "One"

\* The column mode get_render_format chooses.
Columns(width, read_receipt_display) ==
    IF USER_GUTTER + TIME_GUTTER + READ_GUTTER + MIN_MSG_LEN <= width
       /\ read_receipt_display
    THEN "Four"
    ELSE IF USER_GUTTER + TIME_GUTTER + MIN_MSG_LEN <= width THEN "Three"
    ELSE IF USER_GUTTER + MIN_MSG_LEN <= width THEN "Two"
    ELSE "One"

\* A plausible slip: the receipt gutter is taken off in Three mode too.
FillAlwaysReadGutter(cols, width) ==
    CASE cols = "Four" -> width - USER_GUTTER - TIME_GUTTER - READ_GUTTER
      [] cols = "Three" -> width - USER_GUTTER - TIME_GUTTER - READ_GUTTER
      [] cols = "Two" -> width - USER_GUTTER
      [] cols = "One" -> SatSub(width, 2)

\* The fill get_render_format computes in each mode.  The subtractions of
\* the first three modes are plain usize subtractions: a negative result
\* here is one that underflows there.
Fill(cols, width) ==
    CASE cols = "Four" -> width - USER_GUTTER - TIME_GUTTER - READ_GUTTER
      [] cols = "Three" -> width - USER_GUTTER - TIME_GUTTER
      [] cols = "Two" -> width - USER_GUTTER
      [] cols = "One" -> SatSub(width, 2)

\* Message::get_render_format: the MessageFormatter.  receipts is
\* info.receipts.get(event_id), empty when there is none.
get_render_format(self, prev, width, receipts, read_receipt_display, now) ==
    LET cols == Columns(width, read_receipt_display)
        fill == Fill(cols, width)
    IN [cols |-> cols,
        orig |-> width,
        fill |-> fill,
        underflow |-> fill < 0,
        date |-> IF prev # None /\ same_day(prev[1].timestamp, self.timestamp, now)
                 THEN None
                 ELSE show_date(self.timestamp, now),
        user |-> show_sender(self, prev, cols # "One", now),
        time |-> IF cols \in {"Four", "Three"} THEN show_time(self.timestamp)
                 ELSE None,
        read |-> IF cols = "Four" THEN receipts ELSE <<>>]

\* The messages rendered: one of each variant, with and without an emote.
RenderMessages ==
    {m \in NewMessages :
        /\ m.event.event_id = 1
        /\ m.sender = "@a:example.org"
        /\ m.event.reason = None
        /\ m.event.content # None =>
              /\ m.event.content[1].msgtype \in {"Text", "Emote"}
              /\ ~m.event.content[1].html
              /\ m.event.content[1].reply = None}

\* The messages before them: of either sender, at any time.
PrevMessages ==
    {m \in NewMessages :
        /\ m.event.event_id = MaxEventId
        /\ m.event.kind \in {"Original", "Local"}
        /\ m.event.content[1] = [msgtype |-> "Text", html |-> FALSE, reply |-> None]}

\* info.receipts.get(event_id): the users who have read up to the message.
ReceiptLists ==
    {<<>>, <<"@a:example.org">>,
     <<"@a:example.org", "@b:example.org", "@c:example.org", "@d:example.org">>}

\* msg.get_render_format(prev, width, info, settings)
GetRenderFormat ==
    /\ msg # NoMsg
    /\ fmt = NoFmt
    /\ \E prev \in {None} \cup {Some(m) : m \in PrevMessages},
          width \in 0..MaxWidth,
          receipts \in ReceiptLists,
          read_receipt_display \in BOOLEAN,
          now \in Days :
          fmt' = Some([width |-> width,
                       read_receipt_display |-> read_receipt_display,
                       prev |-> prev,
                       now |-> now,
                       out |-> get_render_format(msg[1], prev, width, receipts,
                                                 read_receipt_display, now)])
    /\ UNCHANGED <<usize_max, hasher, messages, last, cmp, conv, msg, shown>>

InitRender ==
    /\ usize_max = U64Max
    /\ hasher = [id \in EventIds |-> 0]
    /\ messages = {}
    /\ last = NoOp
    /\ cmp = NoCmp
    /\ conv = NoConv
    /\ msg \in {Some(m) : m \in RenderMessages}
    /\ fmt = NoFmt
    /\ shown = NoShown

NextRender == GetRenderFormat

SpecRender == InitRender /\ [][NextRender]_vars

(***************************************************************************)
(* MessageFormatter::push_spans and push_text, Message::show_msg           *)
(***************************************************************************)
\* The most lines the wrapping of one body gives.
MaxLines == 2

\* Message::get_render_style: the modifiers added to the default style.
get_render_style(self, selected) ==
    [reversed |-> selected, italic |-> self.timestamp.kind = "LocalEcho"]

\* MessageEvent::body: the text shown for the event.  An Original or Local
\* event shows its content, a redacted one "[Redacted: <reason>]" or
\* "[Redacted]", an undecryptable one "[Unable to decrypt message]".
body(ev) ==
    CASE ev.kind = "EncryptedOriginal" -> [src |-> "undecryptable", reason |-> None]
      [] ev.kind \in {"EncryptedRedacted", "Redacted"} ->
            [src |-> "redacted", reason |-> ev.reason]
      [] OTHER -> [src |-> "content", reason |-> None]

\* Spans: one line of content before the formatter adds its gutters.  `part`
\* says what the line is, `of` the event it shows, `src` where its text comes
\* from, `hide_reply` the flag its text was rendered with, `len` its width,
\* `tokens` the strings pushed into it one by one (reactions), `quoted`
\* whether the bar of a quotation was put in front of it.
Spans(part, of, src, hide_reply, len, tokens) ==
    [part |-> part, of |-> of, src |-> src, hide_reply |-> hide_reply,
     len |-> len, tokens |-> tokens, quoted |-> FALSE]

\* util::space_span(len, style): one span of len spaces.
space_span(part, len) == Spans(part, 0, "space", FALSE, len, <<>>)

\* util::wrapped_text(msg, width, style) and StyleTree::to_text(width, style,
\* hide_reply): the text broken into n lines, each as wide as the width.
wrapped_text(of, src, width, hide_reply, n) ==
    [i \in 1..n |-> Spans("msg", of, src, hide_reply, width, <<>>)]

\* Message::show_msg: the pre-parsed tree when the message holds one, else
\* the wrapped body.  n is the number of lines the wrapping gives.
show_msg(self, width, style, hide_reply, n) ==
    IF self.html # None
    THEN wrapped_text(self.html[1].tree_of, "html", width, hide_reply, n)
    ELSE wrapped_text(self.event.event_id, body(self.event).src, width, hide_reply, n)

\* One line of the Text show returns: the content and what the formatter put
\* around it.  user and time are None where the empty gutter (or nothing)
\* stands; read holds the slots of the receipt zone from left to right.
Line(spans, user, time, read, len) ==
    [spans |-> spans, user |-> user, time |-> time, read |-> read, len |-> len]

\* date.content.len() of the "%A, %B %d %Y" show_date formats: from
\* "Friday, May 01 2020" (19) to "Wednesday, September 01 2020" (28).
DateLen(date) == 19 + (date % 10)

\* push_spans, the date header: the date centred in the original width.
DateLine(f) ==
    LET len == DateLen(f.date[1].date)
        padding == SatSub(f.orig, len)
        leading == padding \div 2
        trailing == SatSub(padding, padding \div 2)
    IN Line(Spans("date", 0, "date", FALSE, len, <<>>), None, None, <<>>,
            leading + len + trailing)

\* self.read.next().map(user_char): the i-th reader left in the iterator.
ReadNext(read, i) == IF i <= Len(read) THEN Some(read[i]) ELSE None

\* A plausible slip: the slots are pushed in the order they were taken.
ReadZoneFirstOutermost(read) == <<ReadNext(read, 1), ReadNext(read, 2), ReadNext(read, 3)>>

\* push_spans, Four columns: a, b and c are taken in this order and pushed
\* as c, b, a.
ReadZone(read) == <<ReadNext(read, 3), ReadNext(read, 2), ReadNext(read, 1)>>

\* The iterator after the three calls of next().
ReadRest(read) == IF Len(read) > 3 THEN SubSeq(read, 4, Len(read)) ELSE <<>>

\* The width of the user gutter of a line: the sender's span or
\* USER_GUTTER_EMPTY_SPAN.
UserWidth(user) == IF user # None THEN user[1].width ELSE USER_GUTTER

\* MessageFormatter::push_spans: the formatter and the text after the call.
push_spans(f, spans, style, text) ==
    LET dated == IF f.date # None THEN Append(text, DateLine(f)) ELSE text
        taken == [f EXCEPT !.date = None, !.user = None, !.time = None]
    IN CASE f.cols = "Four" ->
              [fmt |-> [taken EXCEPT !.read = ReadRest(f.read)],
               text |-> Append(dated,
                   Line(spans, f.user, f.time, ReadZone(f.read),
                        UserWidth(f.user) + spans.len + TIME_GUTTER
                            + 1 + Len(ReadZone(f.read)) + 1))]
         [] f.cols = "Three" ->
              [fmt |-> taken,
               text |-> Append(dated,
                   Line(spans, f.user, f.time, <<>>,
                        UserWidth(f.user) + spans.len
                            + (IF f.time # None THEN f.time[1].width ELSE 0)))]
         [] f.cols = "Two" ->
              [fmt |-> taken,
               text |-> Append(dated,
                   Line(spans, f.user, None, <<>>, UserWidth(f.user) + spans.len))]
         [] f.cols = "One" ->
              [fmt |-> taken,
               text |-> Append(
                   IF f.user # None
                   THEN Append(dated, Line(Spans("sender", 0, "sender", FALSE, 0, <<>>),
                                           f.user, None, <<>>, f.user[1].width))
                   ELSE dated,
                   Line(spans, None, None, <<>>, 2 + spans.len))]

\* MessageFormatter::push_text: push_spans for each line, in order.
RECURSIVE push_text(_, _, _, _)
push_text(f, append, style, text) ==
    IF append = <<>> THEN [fmt |-> f, text |-> text]
    ELSE LET pushed == push_spans(f, Head(append), style, text)
         IN push_text(pushed.fmt, Tail(append), style, pushed.text)

(***************************************************************************)
(* Message::show                                                           *)
(***************************************************************************)
\* The most reactions of one message.
MaxReactions == 3

\* The keys of the reactions of a message, with what decides their label:
\* whether emojis::get knows the key and the shortcode it has for it,
\* whether all its characters are ASCII letters or digits, whether they are
\* all printable ASCII, and how many users reacted with it.
ReactionKeys ==
    {[key |-> "ok", emoji |-> None, alnum |-> TRUE, ascii |-> TRUE, count |-> 2],
     [key |-> "+1", emoji |-> None, alnum |-> FALSE, ascii |-> TRUE, count |-> 1],
     [key |-> "U+00E9", emoji |-> None, alnum |-> FALSE, ascii |-> FALSE, count |-> 1],
     [key |-> "U+1F44D", emoji |-> Some([shortcode |-> Some("+1")]),
      alnum |-> FALSE, ascii |-> FALSE, count |-> 1],
     [key |-> "U+1FAE8", emoji |-> Some([shortcode |-> None]),
      alnum |-> FALSE, ascii |-> FALSE, count |-> 1]}

\* info.get_reactions(event_id): the keys, each once, in any order.
ReactionLists ==
    {l \in UNION {[1..n -> ReactionKeys] : n \in 0..MaxReactions} :
        \A i, j \in 1..Len(l) : l[i] = l[j] => i = j}

\* show, the label of a reaction: None where the loop continues without
\* rendering it.
ReactionName(key, reaction_shortcode_display) ==
    IF reaction_shortcode_display
    THEN IF key.emoji # None
         THEN key.emoji[1].shortcode
         ELSE IF key.alnum THEN Some(key.key) ELSE None
    ELSE Some(key.key)

\* printer::TextPrinter::new(width, style, false)
TextPrinterNew(width, style) == [width |-> width, tokens |-> <<>>]

\* TextPrinter::push_str and push_span_nobreak: the string is added to the
\* text.
push_str(printer, s) == [printer EXCEPT !.tokens = Append(@, s)]

\* TextPrinter::finish: the text pushed, as one line of the printer's width.
finish(printer) ==
    <<Spans("reactions", 0, "reactions", FALSE, printer.width, printer.tokens)>>

\* show, the loop over the reactions: the printer and the count after it.
RECURSIVE ShowReactions(_, _, _, _)
ShowReactions(entries, emojis, reactions, reaction_shortcode_display) ==
    IF entries = <<>> THEN [emojis |-> emojis, reactions |-> reactions]
    ELSE LET key == Head(entries)
             spaced == IF reactions # 0 THEN push_str(emojis, " ") ELSE emojis
             name == ReactionName(key, reaction_shortcode_display)
         IN IF name = None
            THEN ShowReactions(Tail(entries), spaced, reactions,
                               reaction_shortcode_display)
            ELSE ShowReactions(Tail(entries),
                     push_str(push_str(push_str(push_str(push_str(spaced,
                         "["), name[1]), " "), ToString(key.count)), "]"),
                     reactions + 1, reaction_shortcode_display)

\* info.get_event(event_id): the message of the room with this identifier.
get_event(info, event_id) ==
    IF \E m \in info.events : m.event.event_id = event_id
    THEN Some(CHOOSE m \in info.events : m.event.event_id = event_id)
    ELSE None

\* Message::sender_span: settings.get_user_span(sender), as wide as the name.
sender_span(self) == [name |-> self.sender, width |-> Len(self.sender)]

\* Spans of the lines of a quotation: a space and the bar before each.
Barred(replied) ==
    [i \in 1..Len(replied) |->
        [replied[i] EXCEPT !.quoted = TRUE, !.len = 1 + 1 + @]]

\* The line above a quotation: space, bar, sender, colon, trailing spaces.
ReplySender(r, w) ==
    LET sender == sender_span(r)
        trailing == SatSub(w, sender.width + 1)
    IN Spans("reply_sender", r.event.event_id, "sender", FALSE,
             1 + 1 + sender.width + 1 + trailing, <<>>)

\* A plausible slip: the quotation is rendered at the width of the body.
ShowReplyFullWidth(r, width, style, f, info, wrap) ==
    LET w == width
        replied == show_msg(r, w, style, TRUE, wrap.reply)
        header == push_spans(f, ReplySender(r, w), style, <<>>)
    IN push_text(header.fmt, Barred(replied), style, header.text)

\* A plausible slip: the message replied to is rendered as show renders it,
\* with the message it replies to quoted in turn.
ShowReplyNested(r, width, style, f, info, wrap) ==
    LET w == SatSub(width, 2)
        inner == IF reply_to(r) = None THEN None
                 ELSE get_event(info, reply_to(r)[1])
        replied ==
            (IF inner = None THEN <<>>
             ELSE Barred(show_msg(inner[1], SatSub(w, 2), style, TRUE, wrap.reply)))
            \o show_msg(r, w, style, inner # None, wrap.reply)
        header == push_spans(f, ReplySender(r, w), style, <<>>)
    IN push_text(header.fmt, Barred(replied), style, header.text)

\* show, the message replied to: r.show_msg at the width less two, its
\* sender above it, and a space and the bar in front of each of its lines.
\* info is the room show was given; the quotation does not look into it.
ShowReply(r, width, style, f, info, wrap) ==
    LET w == SatSub(width, 2)
        replied == show_msg(r, w, style, TRUE, wrap.reply)
        header == push_spans(f, ReplySender(r, w), style, <<>>)
    IN push_text(header.fmt, Barred(replied), style, header.text)

\* Message::show: the lines of the Text returned.  wrap gives the number of
\* lines the body of the message (msg) and of the message it replies to
\* (reply) are wrapped into.
show(self, prev, selected, vwctx_width, info, settings, now, wrap) ==
    LET style == get_render_style(self, selected)
        fmt0 == get_render_format(self, prev, vwctx_width, info.receipts,
                                  settings.read_receipt_display, now)
        width == fmt0.fill
        reply == IF reply_to(self) = None THEN None
                 ELSE get_event(info, reply_to(self)[1])
        quoted == IF reply # None
                  THEN ShowReply(reply[1], width, style, fmt0, info, wrap)
                  ELSE [fmt |-> fmt0, text |-> <<>>]
        shown_msg == push_text(quoted.fmt,
                               show_msg(self, width, style, reply # None, wrap.msg),
                               style, quoted.text)
        filled == IF Len(shown_msg.text) = 0
                  THEN push_spans(shown_msg.fmt, space_span("empty", width),
                                  style, shown_msg.text)
                  ELSE shown_msg
        looped == ShowReactions(info.reactions, TextPrinterNew(width, style), 0,
                                settings.reaction_shortcode_display)
    IN IF settings.reaction_display /\ looped.reactions > 0
       THEN push_text(filled.fmt, finish(looped.emojis), style, filled.text).text
       ELSE filled.text

\* The messages shown: one of each variant, a text with and without an HTML
\* body, replying to nothing, to itself or to another event, and an emote.
ShowMessages ==
    {m \in NewMessages :
        /\ m.event.event_id = 1
        /\ m.sender = "@a:example.org"
        /\ m.timestamp \in {OriginServer(0), LocalEcho}
        /\ m.event.reason = None
        /\ m.event.content # None =>
              \/ m.event.content[1].msgtype = "Text"
              \/ m.event.content[1] = [msgtype |-> "Emote", html |-> FALSE, reply |-> None]}

\* The messages before them: of either sender, of the first or the last day.
ShowPrevs ==
    {None} \cup {Some(m) : m \in {p \in PrevMessages :
                     p.timestamp \in {OriginServer(0), OriginServer(UIntMax)}}}

\* The widths of the viewport: the least ones and those around the widths
\* at which the column mode changes.
ShowWidths ==
    {0, 1, 2, USER_GUTTER - 1, USER_GUTTER,
     USER_GUTTER + MIN_MSG_LEN - 1, USER_GUTTER + MIN_MSG_LEN,
     USER_GUTTER + TIME_GUTTER + MIN_MSG_LEN,
     USER_GUTTER + TIME_GUTTER + READ_GUTTER + MIN_MSG_LEN - 1,
     USER_GUTTER + TIME_GUTTER + READ_GUTTER + MIN_MSG_LEN, MaxWidth}

\* settings.tunables
Tunables(read_receipt_display, reaction_display, reaction_shortcode_display) ==
    [read_receipt_display |-> read_receipt_display,
     reaction_display |-> reaction_display,
     reaction_shortcode_display |-> reaction_shortcode_display]

\* RoomInfo: the messages get_event finds, and the reactions and the
\* receipts of the message shown.
RoomInfo(events, reactions, receipts) ==
    [events |-> events, reactions |-> reactions, receipts |-> receipts]

\* What show is given besides the message.
ShowInput(prev, selected, width, info, settings, now, wrap) ==
    [prev |-> prev, selected |-> selected, width |-> width, info |-> info,
     settings |-> settings, now |-> now, wrap |-> wrap]

\* The receipts of a message nobody has read and of one four users have.
FewOrManyReceipts == {r \in ReceiptLists : Len(r) # 1}

\* Rooms without the message replied to: every width, predecessor, day,
\* selection, receipt list and body length, with one reaction or none.
LayoutInputs ==
    {ShowInput(prev, selected, width,
               RoomInfo({}, reactions, receipts),
               Tunables(read_receipt_display, TRUE, FALSE),
               now, [msg |-> n, reply |-> 0]) :
        prev \in ShowPrevs, selected \in BOOLEAN, width \in ShowWidths,
        reactions \in {l \in ReactionLists : Len(l) = 0 \/ (Len(l) = 1 /\ l[1].alnum)},
        receipts \in ReceiptLists, read_receipt_display \in BOOLEAN,
        now \in Days, n \in 0..MaxLines}

\* Rooms with every list of reactions, under every setting of their display.
ReactionInputs ==
    {ShowInput(None, FALSE, width,
               RoomInfo({}, reactions, receipts),
               Tunables(TRUE, reaction_display, reaction_shortcode_display),
               0, [msg |-> n, reply |-> 0]) :
        width \in {0, USER_GUTTER + MIN_MSG_LEN, MaxWidth},
        reactions \in ReactionLists, receipts \in FewOrManyReceipts,
        reaction_display \in BOOLEAN, reaction_shortcode_display \in BOOLEAN,
        n \in 0..1}

\* The messages of another sender a message can reply to: texts replying to
\* nothing, to the message shown or to themselves, and a redacted one.
ReplyMessages ==
    {m \in NewMessages :
        /\ m.event.event_id = MaxEventId
        /\ m.sender = "@b:example.org"
        /\ m.timestamp = OriginServer(0)
        /\ m.event.kind \in {"Original", "Redacted"}
        /\ m.event.reason = None
        /\ m.event.content # None => m.event.content[1].msgtype = "Text"}

\* Rooms that hold the message shown or not, and one other message or none,
\* at the least widths and at those of the modes with a sender gutter.
ReplyInputs(self) ==
    {ShowInput(prev, FALSE, width,
               RoomInfo(own \cup other, <<>>, receipts),
               Tunables(TRUE, TRUE, FALSE),
               0, [msg |-> n, reply |-> k]) :
        prev \in {None, Some(self)},
        width \in {w \in ShowWidths : w <= 2 \/ w >= USER_GUTTER + MIN_MSG_LEN},
        own \in {{}, {self}},
        other \in {{}} \cup {{r} : r \in ReplyMessages},
        receipts \in FewOrManyReceipts,
        n \in 0..MaxLines, k \in 0..MaxLines}

ShowInputs(self) == LayoutInputs \cup ReactionInputs \cup ReplyInputs(self)

\* msg.show(prev, selected, vwctx, info, settings)
Show ==
    /\ msg # NoMsg
    /\ shown = NoShown
    /\ \E arg \in ShowInputs(msg[1]) :
          shown' = Some([arg |-> arg,
                         text |-> show(msg[1], arg.prev, arg.selected, arg.width,
                                       arg.info, arg.settings, arg.now, arg.wrap)])
    /\ UNCHANGED <<usize_max, hasher, messages, last, cmp, conv, msg, fmt>>

InitShow ==
    /\ usize_max = U64Max
    /\ hasher = [id \in EventIds |-> 0]
    /\ messages = {}
    /\ last = NoOp
    /\ cmp = NoCmp
    /\ conv = NoConv
    /\ msg \in {Some(m) : m \in ShowMessages}
    /\ fmt = NoFmt
    /\ shown = NoShown

NextShow == Show

SpecShow == InitShow /\ [][NextShow]_vars

(***************************************************************************)
(* Properties of the cursor operations (under Spec)                        *)
(***************************************************************************)
\* The timestamp from_cursor rebuilt from the row of the cursor it was given.
RowTs == ResultOk(TsTryFromUsize(last.cursor[1].y))

\* The key a returned MessageCursor holds.
OutKey == last.out[1].timestamp[1]

\* The keys at or after (T, "$").
AtOrAfter(T) == {k \in messages : KeyCmp(k, Key(T, ev_term_id)) # "Less"}

LeastKey(S) == CHOOSE k \in S : \A j \in S : KeyCmp(k, j) # "Greater"

\* The keys with a timestamp after T.
After(T) == {k \in messages : TsCmp(k.ts, T) = "Greater"}

\* The candidates a scan without a hash match goes through: the keys with the
\* timestamp T and the first key after them.
Scanned(T) ==
    {k \in messages : k.ts = T} \cup
    (IF After(T) = {} THEN {} ELSE {LeastKey(After(T))})

\* C1: for every key K of the collection whose to_cursor is representable,
\* from_cursor(to_cursor(K)) is the cursor of exactly K, with sub-row 0.
C1_RoundTrip ==
    (last.op = "identity" /\ last.mc.timestamp # None
        /\ last.mc.timestamp[1] \in messages)
    => last.out = Some(McFromKey(last.mc.timestamp[1]))

\* C2 as claimed: from_cursor returns a key whose timestamp exceeds the row's
\* timestamp only when the collection holds no key with the row's timestamp.
C2_LaterKeyOnlyWithoutRowKeys ==
    (last.op = "from_cursor" /\ RowTs # None /\ last.out # None
        /\ TsCmp(OutKey.ts, RowTs[1]) = "Greater")
    => ~ \E k \in messages : k.ts = RowTs[1]

\* C2 as amended: from_cursor returns a key whose timestamp exceeds the row's
\* timestamp only when it is the first key after the row's timestamp and it is
\* either the first candidate of the scan (no key has the row's timestamp) or
\* its identifier hash equals the column while no key with the row's timestamp
\* has that hash.
C2_LaterKeyFirstOrHashMatch ==
    (last.op = "from_cursor" /\ RowTs # None /\ last.out # None
        /\ TsCmp(OutKey.ts, RowTs[1]) = "Greater")
    => /\ OutKey = LeastKey(After(RowTs[1]))
       /\ \/ ~ \E k \in messages : k.ts = RowTs[1]
          \/ /\ hasher[OutKey.id] = last.cursor[1].x
             /\ \A k \in messages : k.ts = RowTs[1] => hasher[k.id] # last.cursor[1].x

\* from_cursor returned a key after the row's timestamp although the
\* collection holds a key with the row's timestamp.
C2_Witness ==
    /\ last.op = "from_cursor" /\ RowTs # None /\ last.out # None
    /\ TsCmp(OutKey.ts, RowTs[1]) = "Greater"
    /\ \E k \in messages : k.ts = RowTs[1]

\* C3: when the row converts to a timestamp T, from_cursor returns None exactly
\* when no key is at or after (T, "$"); otherwise it returns a key of the
\* collection, and the smallest key at or after (T, "$") when no scanned
\* candidate's hash equals the column.
C3_NotFoundOrPresent ==
    (last.op = "from_cursor" /\ RowTs # None)
    => /\ (last.out = None) <=> (AtOrAfter(RowTs[1]) = {})
       /\ last.out # None => OutKey \in messages /\ last.out[1].text_row = 0
       /\ (last.out # None
             /\ \A k \in Scanned(RowTs[1]) : hasher[k.id] # last.cursor[1].x)
          => OutKey = LeastKey(AtOrAfter(RowTs[1]))

\* from_cursor fell back to the first of several candidates, none of which
\* has the column's hash.
C3_Witness ==
    /\ last.op = "from_cursor" /\ RowTs # None /\ last.out # None
    /\ Cardinality(Scanned(RowTs[1])) >= 2
    /\ \A k \in Scanned(RowTs[1]) : hasher[k.id] # last.cursor[1].x
    /\ OutKey = LeastKey(AtOrAfter(RowTs[1]))

\* C4: to_key of a None-keyed cursor is None for an empty collection and else
\* the collection's maximum key (a pending one if there is one); to_key of a
\* Some-keyed cursor is that cursor's own key.
C4_ToKey ==
    last.op = "to_key"
    => IF last.mc.timestamp = None
       THEN /\ messages = {} => last.out = None
            /\ messages # {} =>
                 /\ last.out # None
                 /\ last.out[1] \in messages
                 /\ \A j \in messages : KeyCmp(j, last.out[1]) # "Greater"
                 /\ (\E j \in messages : j.ts = LocalEcho)
                       => last.out[1].ts = LocalEcho
       ELSE last.out = last.mc.timestamp

\* to_key of the latest cursor chose the pending key of a collection that
\* also holds confirmed keys.
C4_Witness ==
    /\ last.op = "to_key" /\ last.mc.timestamp = None
    /\ Cardinality(messages) >= 2
    /\ \E j \in messages : j.ts # LocalEcho
    /\ last.out # None /\ last.out[1].ts = LocalEcho

(***************************************************************************)
(* Properties of the orders and the conversions (under SpecPure)           *)
(***************************************************************************)
Ordering == {"Less", "Equal", "Greater"}

\* What makes four comparison results those of a total order on a, b, c.
TotalOrder(a, b, c, out) ==
    /\ out.ab \in Ordering /\ out.ba \in Ordering
    /\ out.bc \in Ordering /\ out.ac \in Ordering
    /\ (out.ab = "Equal") <=> (a = b)
    /\ (out.ab = "Less") <=> (out.ba = "Greater")
    /\ (out.ab = "Greater") <=> (out.ba = "Less")
    /\ (out.ab # "Greater" /\ out.bc # "Greater") => out.ac # "Greater"
    /\ (out.ab = "Less" /\ out.bc # "Greater") => out.ac = "Less"
    /\ (out.ab # "Greater" /\ out.bc = "Less") => out.ac = "Less"

\* C5: the timestamp comparison is a total order; every confirmed timestamp is
\* less than pending, pending is never less than a confirmed one, two
\* confirmed timestamps compare by value and two pending ones are equal.
C5_TimeStampOrder ==
    cmp.op = "ts_cmp"
    => LET a == cmp.args[1]
           b == cmp.args[2]
       IN /\ TotalOrder(a, b, cmp.args[3], cmp.out)
          /\ (a.kind = "OriginServer" /\ b.kind = "LocalEcho")
                => cmp.out.ab = "Less" /\ cmp.out.ba = "Greater"
          /\ (a.kind = "OriginServer" /\ b.kind = "OriginServer")
                => cmp.out.ab = IntCmp(a.ms, b.ms)
          /\ (a.kind = "LocalEcho" /\ b.kind = "LocalEcho")
                => cmp.out.ab = "Equal"

\* A confirmed timestamp was compared with pending, and pending with pending.
C5_Witness ==
    /\ cmp.op = "ts_cmp"
    /\ cmp.args[1].kind = "OriginServer" /\ cmp.args[2].kind = "LocalEcho"
    /\ cmp.args[3].kind = "LocalEcho"
    /\ cmp.out.ab = "Less" /\ cmp.out.bc = "Equal" /\ cmp.out.ac = "Less"

\* C6: the MessageCursor comparison is a total order; two Some-keyed cursors
\* compare by timestamp, by event identifier when the timestamps are equal,
\* then by sub-row; a None-keyed cursor is greater than every Some-keyed one;
\* two None-keyed cursors compare by sub-row.
C6_CursorOrder ==
    cmp.op = "mc_cmp"
    => LET a == cmp.args[1]
           b == cmp.args[2]
       IN /\ TotalOrder(a, b, cmp.args[3], cmp.out)
          /\ (a.timestamp = None /\ b.timestamp = None)
                => cmp.out.ab = IntCmp(a.text_row, b.text_row)
          /\ (a.timestamp = None /\ b.timestamp # None)
                => cmp.out.ab = "Greater" /\ cmp.out.ba = "Less"
          /\ (a.timestamp # None /\ b.timestamp # None)
                => LET ka == a.timestamp[1]
                       kb == b.timestamp[1]
                   IN cmp.out.ab =
                        IF TsCmp(ka.ts, kb.ts) # "Equal" THEN TsCmp(ka.ts, kb.ts)
                        ELSE IF ka.id # kb.id THEN IntCmp(ka.id, kb.id)
                        ELSE IntCmp(a.text_row, b.text_row)

\* Two cursors with the same timestamp were ordered by their identifiers
\* against their sub-rows, below a None-keyed cursor.
C6_Witness ==
    /\ cmp.op = "mc_cmp"
    /\ cmp.args[1].timestamp # None /\ cmp.args[2].timestamp # None
    /\ cmp.args[3].timestamp = None
    /\ cmp.args[1].timestamp[1].ts = cmp.args[2].timestamp[1].ts
    /\ cmp.args[1].timestamp[1].id < cmp.args[2].timestamp[1].id
    /\ cmp.args[1].text_row > cmp.args[2].text_row
    /\ cmp.args[3].text_row < cmp.args[2].text_row
    /\ cmp.out.ab = "Less" /\ cmp.out.bc = "Less" /\ cmp.out.ac = "Less"

\* C7: 0 converts to pending and pending to 0; a non-zero integer that fits
\* the timestamp width converts to confirmed(n), which converts back to n; an
\* integer or a timestamp that does not fit yields a conversion error.
C7_Conversion ==
    /\ conv.op = "from_usize" =>
          /\ conv.arg = 0 => conv.out = Ok(LocalEcho) /\ conv.back = Ok(0)
          /\ (conv.arg # 0 /\ conv.arg <= UIntMax)
                => conv.out = Ok(OriginServer(conv.arg)) /\ conv.back = Ok(conv.arg)
          /\ conv.arg > UIntMax => conv.out = Err("UIntError")
    /\ conv.op = "from_ts" =>
          /\ conv.arg = LocalEcho => conv.out = Ok(0)
          /\ (conv.arg # LocalEcho /\ conv.arg.ms <= conv.umax)
                => conv.out = Ok(conv.arg.ms)
          /\ (conv.arg # LocalEcho /\ conv.arg.ms > conv.umax)
                => conv.out = Err("IntError")

\* An integer too wide for a timestamp was converted on a 64-bit target.
C7_Witness ==
    /\ conv.op = "from_usize" /\ conv.arg > UIntMax /\ ~IsOk(conv.out)

(***************************************************************************)
(* Properties of redaction (under SpecEvent)                               *)
(***************************************************************************)
\* C8: a step changes the variant of a message's event only from Original to
\* Redacted; an EncryptedOriginal, EncryptedRedacted, Redacted or Local event
\* is left unchanged by every redaction; a Redacted event never becomes
\* Original again.
C8_RedactOneWay ==
    [][msg # NoMsg =>
         /\ msg' # NoMsg
         /\ msg[1].event.kind # msg'[1].event.kind
               => msg[1].event.kind = "Original" /\ msg'[1].event.kind = "Redacted"
         /\ msg[1].event.kind \in {"EncryptedOriginal", "EncryptedRedacted",
                                   "Redacted", "Local"}
               => msg'[1].event = msg[1].event
         /\ msg[1].event.kind = "Redacted" => msg'[1].event.kind # "Original"
         /\ msg'[1].event.event_id = msg[1].event.event_id]_vars

\* An Original event was redacted, with a reason: only Message::new of an
\* Original event leaves a parsed html tree, and only redact gives a reason to
\* the event that has it.
C8_Witness ==
    /\ msg # NoMsg
    /\ msg[1].event.kind = "Redacted" /\ msg[1].event.reason = Some("spam")
    /\ msg[1].html # None

(***************************************************************************)
(* Properties of the layout (under SpecRender)                             *)
(***************************************************************************)
\* C9: exactly one column mode is chosen, widest first: Four iff the width
\* is at least 77 and read receipts are shown; otherwise Three iff it is at
\* least 72; otherwise Two iff it is at least 60; otherwise One.  The gutters
\* are 30 (sender), 12 (time) and 5 (receipts), the least body 30.
C9_ColumnMode ==
    fmt # NoFmt
    => LET w == fmt[1].width
           four == w >= 77 /\ fmt[1].read_receipt_display
           cols == fmt[1].out.cols
       IN /\ USER_GUTTER = 30 /\ TIME_GUTTER = 12
          /\ READ_GUTTER = 5 /\ MIN_MSG_LEN = 30
          /\ cols \in {"Four", "Three", "Two", "One"}
          /\ (cols = "Four") <=> four
          /\ (cols = "Three") <=> (~four /\ w >= 72)
          /\ (cols = "Two") <=> (~four /\ w < 72 /\ w >= 60)
          /\ (cols = "One") <=> (~four /\ w < 60)

\* A width that fits four columns was laid out in three, read receipts being
\* switched off.
C9_Witness ==
    /\ fmt # NoFmt
    /\ fmt[1].width >= 77 /\ ~fmt[1].read_receipt_display
    /\ fmt[1].out.cols = "Three"

\* C10 as claimed: in every column mode, One included, the fill is at least
\* 30 and no subtraction underflows.
C10_FillAtLeastMinEveryMode ==
    fmt # NoFmt => fmt[1].out.fill >= 30 /\ ~fmt[1].out.underflow

\* C10 as amended: the fill is at least 30 in the modes Four, Three and Two;
\* in mode One it is the width less 2, saturating at 0, which is below 30 for
\* every width below 32; no subtraction underflows in any mode.
C10_FillAtLeastMinButOne ==
    fmt # NoFmt
    => LET w == fmt[1].width
           out == fmt[1].out
       IN /\ ~out.underflow /\ out.fill >= 0
          /\ out.cols \in {"Four", "Three", "Two"} => out.fill >= 30
          /\ out.cols = "One" => out.fill = (IF w >= 2 THEN w - 2 ELSE 0)
          /\ out.fill < 30 <=> w < 32

\* A width of one column was laid out in mode One with nothing to fill.
C10_Witness ==
    /\ fmt # NoFmt
    /\ fmt[1].width = 1 /\ fmt[1].out.cols = "One" /\ fmt[1].out.fill = 0

(***************************************************************************)
(* Properties of show (under SpecShow)                                     *)
(***************************************************************************)
\* What the last call of show was given, and the lines it returned.
ShownArg == shown[1].arg

ShownText == shown[1].text

\* The formatter the last call of show built.
ShownFmt ==
    get_render_format(msg[1], ShownArg.prev, ShownArg.width, ShownArg.info.receipts,
                      ShownArg.settings.read_receipt_display, ShownArg.now)

\* The least width at which the body of mode One has its MIN_MSG_LEN columns.
OneModeFloor == 2 + MIN_MSG_LEN

\* C11: at every width below the floor of mode One, 0 and 1 included, show
\* returns at least one line that is not empty, no line it returns (sender
\* line, date header, body line) is longer than the width, and no width
\* computed on the way underflows.
C11_NarrowLinesFit ==
    (shown # NoShown /\ ShownArg.width < OneModeFloor) =>
        /\ \E i \in 1..Len(ShownText) : ShownText[i].len > 0
        /\ \A i \in 1..Len(ShownText) : ShownText[i].len <= ShownArg.width
        /\ ~ShownFmt.underflow
        /\ ShownFmt.fill >= 0

\* The lines show returned but for the date header.
MessageLines == SelectSeq(ShownText, LAMBDA l : l.spans.part # "date")

\* The readers whose glyph stands in some slot of some line.
ReadersShown ==
    {u \in Users \cup {"@c:example.org", "@d:example.org"} :
        \E i \in 1..Len(ShownText) :
            \E s \in 1..Len(ShownText[i].read) : ShownText[i].read[s] = Some(u)}

\* The first reader stands in the rightmost slot of the first zone.
FirstReaderInnermost ==
    \A i \in 1..Len(MessageLines) :
        (i = 1 /\ ShownArg.info.receipts # <<>>) =>
            /\ Len(MessageLines[i].read) = 3
            /\ MessageLines[i].read[3] = Some(ShownArg.info.receipts[1])

\* Glyphs of readers stand in lines of mode Four only.
GlyphsInFourOnly ==
    ShownFmt.cols # "Four" =>
        \A i \in 1..Len(ShownText) : ShownText[i].read = <<>>

\* C12 as stated: glyphs of readers are rendered in mode Four only, one
\* rendered message shows at most three readers in all, however many have
\* read it and however many lines it takes, and the first reader stands in
\* the innermost (rightmost) slot of the zone.
C12_AtMostThreeReadersInAll ==
    shown # NoShown =>
        /\ GlyphsInFourOnly
        /\ Cardinality(ReadersShown) <= 3
        /\ ShownFmt.cols = "Four" => FirstReaderInnermost

\* C12, amended: glyphs of readers are rendered in mode Four only; there,
\* every line but the date header ends in a zone of three slots, and the
\* k-th of these lines shows the readers 3k-2, 3k-1 and 3k of the receipt
\* list, the earliest of the three in the rightmost slot; so a message of n
\* lines shows the first 3n readers, not three.
C12_ThreeReadersALine ==
    shown # NoShown =>
        /\ GlyphsInFourOnly
        /\ ShownFmt.cols = "Four" =>
              /\ FirstReaderInnermost
              /\ \A k \in 1..Len(MessageLines) :
                    MessageLines[k].read =
                        <<ReadNext(ShownArg.info.receipts, 3 * k),
                          ReadNext(ShownArg.info.receipts, 3 * k - 1),
                          ReadNext(ShownArg.info.receipts, 3 * k - 2)>>
              /\ \A u \in ReadersShown :
                    \E j \in 1..(3 * Len(MessageLines)) :
                        ReadNext(ShownArg.info.receipts, j) = Some(u)

\* A message four users have read is shown in two lines of mode Four: the
\* second line shows the fourth reader.
C12_Witness ==
    /\ shown # NoShown
    /\ ShownFmt.cols = "Four"
    /\ Len(ShownArg.info.receipts) = 4
    /\ Len(MessageLines) = 2
    /\ MessageLines[1].read[3] = Some(ShownArg.info.receipts[1])
    /\ MessageLines[2].read[3] = Some(ShownArg.info.receipts[4])
    /\ Cardinality(ReadersShown) = 4

\* The strings pushed into the line of reactions show returned, none when
\* it returned no such line.
ReactionLines == SelectSeq(ShownText, LAMBDA l : l.spans.part = "reactions")

ReactionTokens ==
    IF ReactionLines = <<>> THEN <<>> ELSE ReactionLines[1].spans.tokens

\* The labels rendered: the strings that follow an opening bracket.
RECURSIVE LabelsOf(_)
LabelsOf(tokens) ==
    IF Len(tokens) < 2 THEN <<>>
    ELSE IF Head(tokens) = "[" THEN <<tokens[2]>> \o LabelsOf(Tail(Tail(tokens)))
    ELSE LabelsOf(Tail(tokens))

\* The label the claim gives a reaction, None where it has it skipped.
ClaimedName(key, reaction_shortcode_display) ==
    IF reaction_shortcode_display /\ key.emoji # None /\ key.emoji[1].shortcode # None
    THEN key.emoji[1].shortcode
    ELSE IF key.ascii THEN Some(key.key) ELSE None

RECURSIVE ClaimedLabels(_, _)
ClaimedLabels(entries, reaction_shortcode_display) ==
    IF entries = <<>> THEN <<>>
    ELSE LET name == ClaimedName(Head(entries), reaction_shortcode_display)
         IN (IF name = None THEN <<>> ELSE <<name[1]>>)
            \o ClaimedLabels(Tail(entries), reaction_shortcode_display)

\* C13: with the display of reactions enabled, the label of each reaction
\* is its shortcode when the display of shortcodes is enabled and the key
\* has one, else its raw key when that is printable ASCII, else the reaction
\* is skipped and the others are still rendered; under every combination of
\* the shortcode setting, mapped or not, ASCII or not.
C13_LabelShortcodeKeyOrSkip ==
    (shown # NoShown /\ ShownArg.settings.reaction_display) =>
        LabelsOf(ReactionTokens) =
            ClaimedLabels(ShownArg.info.reactions,
                          ShownArg.settings.reaction_shortcode_display)

\* The reactions the loop of show renders: those it has a name for.
RECURSIVE RenderedGroups(_, _)
RenderedGroups(entries, reaction_shortcode_display) ==
    IF entries = <<>> THEN <<>>
    ELSE LET name == ReactionName(Head(entries), reaction_shortcode_display)
         IN (IF name = None THEN <<>>
             ELSE <<<<"[", name[1], " ", ToString(Head(entries).count), "]">>>>)
            \o RenderedGroups(Tail(entries), reaction_shortcode_display)

\* The groups, one space between each two of them.
RECURSIVE SpaceSeparated(_)
SpaceSeparated(groups) ==
    IF groups = <<>> THEN <<>>
    ELSE IF Len(groups) = 1 THEN Head(groups)
    ELSE Head(groups) \o <<" ">> \o SpaceSeparated(Tail(groups))

\* C15: for every sequence of reactions, with reactions skipped at any
\* position, the text of the reactions is the rendered groups
\* "[<label> <count>]" with exactly one space between each two, no space
\* before the first or after the last and no doubled space; and no line of
\* reactions is returned when every reaction is skipped.
C15_GroupsSingleSpaced ==
    (shown # NoShown /\ ShownArg.settings.reaction_display) =>
        LET groups == RenderedGroups(ShownArg.info.reactions,
                          ShownArg.settings.reaction_shortcode_display)
        IN /\ groups = <<>> => ReactionLines = <<>>
           /\ groups # <<>> =>
                 /\ Len(ReactionLines) = 1
                 /\ ReactionTokens = SpaceSeparated(groups)

\* The message the message shown declares it replies to, when the room has
\* it.
ShownReply ==
    IF reply_to(msg[1]) = None THEN None
    ELSE get_event(ShownArg.info, reply_to(msg[1])[1])

\* The lines of content show returned: all but the date header and the
\* sender line of mode One.
ContentLines ==
    SelectSeq(ShownText, LAMBDA l : l.spans.part \notin {"date", "sender"})

\* C14: when the message declares a reply target that the room does not
\* hold, show returns a text without the header of a quotation and without
\* barred lines, its body rendered with hide_reply false; when the room
\* holds the target, one line with the sender of the target and then the
\* lines of the target, rendered at the width of the body less 2
\* (saturating) with a space and the bar in front, come before the body,
\* which is rendered with hide_reply true.
C14_ReplyQuotedOrInline ==
    (shown # NoShown /\ reply_to(msg[1]) # None) =>
        LET lines == ContentLines
            n == ShownArg.wrap.msg
            k == ShownArg.wrap.reply
            w == SatSub(ShownFmt.fill, 2)
        IN IF ShownReply = None
           THEN /\ \A i \in 1..Len(lines) :
                      /\ lines[i].spans.part # "reply_sender"
                      /\ ~lines[i].spans.quoted
                /\ Len(lines) >= n
                /\ \A i \in 1..n :
                      /\ lines[i].spans.part = "msg"
                      /\ lines[i].spans.of = msg[1].event.event_id
                      /\ ~lines[i].spans.hide_reply
           ELSE /\ Len(lines) >= 1 + k + n
                /\ lines[1].spans.part = "reply_sender"
                /\ lines[1].spans.of = ShownReply[1].event.event_id
                /\ ~lines[1].spans.quoted
                /\ \A i \in 2..(1 + k) :
                      /\ lines[i].spans.part = "msg"
                      /\ lines[i].spans.of = ShownReply[1].event.event_id
                      /\ lines[i].spans.quoted
                      /\ lines[i].spans.len = 1 + 1 + w
                /\ \A i \in (2 + k)..(1 + k + n) :
                      /\ lines[i].spans.part = "msg"
                      /\ lines[i].spans.of = msg[1].event.event_id
                      /\ ~lines[i].spans.quoted
                      /\ lines[i].spans.hide_reply
                      /\ lines[i].spans.len = ShownFmt.fill
                /\ \A i \in (2 + k + n)..Len(lines) :
                      /\ lines[i].spans.part # "reply_sender"
                      /\ ~lines[i].spans.quoted

\* A reply to a message the room holds is shown: two lines of the target
\* under its sender, then the line of the body.
C14_Witness ==
    /\ shown # NoShown
    /\ reply_to(msg[1]) = Some(MaxEventId)
    /\ ShownReply # None
    /\ ShownArg.wrap = [msg |-> 1, reply |-> 2]
    /\ ShownFmt.fill = MIN_MSG_LEN
    /\ Len(ContentLines) = 4
    /\ ContentLines[3].spans.quoted
    /\ ContentLines[3].spans.len = MIN_MSG_LEN
    /\ ContentLines[4].spans.hide_reply

\* The barred lines show returned.
QuotedLines == SelectSeq(ShownText, LAMBDA l : l.spans.quoted)

\* The lines that name the sender of a quotation.
ReplySenderLines == SelectSeq(ShownText, LAMBDA l : l.spans.part = "reply_sender")

\* The reply relations of the room lead from the message shown back to it:
\* it replies to itself, or to a message that replies to it.
ReplyCycle ==
    /\ ShownReply # None
    /\ \/ ShownReply[1] = msg[1]
       \/ /\ reply_to(ShownReply[1]) = Some(msg[1].event.event_id)
          /\ msg[1] \in ShownArg.info.events

\* C17: show returns for every room, those included whose reply relations
\* form a cycle (the message replies to itself, or to a message that replies
\* to it): the body of the reply target is quoted one level deep, and the
\* message the target replies to is never expanded.  What is quoted is the
\* target's own lines and nothing else, under one sender line.
C17_QuotedOneLevelDeep ==
    shown # NoShown =>
        IF ShownReply = None
        THEN QuotedLines = <<>> /\ ReplySenderLines = <<>>
        ELSE /\ Len(ReplySenderLines) = 1
             /\ Len(QuotedLines) = ShownArg.wrap.reply
             /\ \A i \in 1..Len(QuotedLines) :
                   /\ QuotedLines[i].spans.of = ShownReply[1].event.event_id
                   /\ QuotedLines[i].spans.len = 1 + 1 + SatSub(ShownFmt.fill, 2)

\* A message is shown that replies to a message replying to it, both in the
\* room: the one line of the target is quoted, and nothing of the message
\* shown is.
C17_Witness ==
    /\ shown # NoShown
    /\ ReplyCycle
    /\ ShownReply[1] # msg[1]
    /\ ShownArg.wrap = [msg |-> 1, reply |-> 1]
    /\ Len(QuotedLines) = 1
    /\ QuotedLines[1].spans.of = MaxEventId
    /\ Len(ContentLines) = 3

(***************************************************************************)
(* Properties of the styled content of a Message (under SpecEvent)         *)
(***************************************************************************)
\* C16: after any sequence of create and redact operations the message
\* holds pre-parsed styled content only if its current event yields styled
\* content (an Original or Local event with an HTML text body); that is,
\* show_msg of a Redacted message renders the placeholder of the redaction
\* and never the original content.
C16_StyledOnlyIfEventStyled ==
    msg # NoMsg =>
        /\ msg[1].html # None => EventHtml(msg[1].event) # None
        /\ msg[1].event.kind = "Redacted" =>
              \A width \in {0, MIN_MSG_LEN}, hide_reply \in BOOLEAN :
                  LET text == show_msg(msg[1], width,
                                       get_render_style(msg[1], FALSE), hide_reply, 1)
                  IN \A i \in 1..Len(text) : text[i].src = "redacted"

=============================================================================
